---- MODULE Spec2Model ----
(***************************************************************************)
(* A model of the k-means clustering code of mc906:                        *)
(*   src/kmeans.py  Kmeans.__init__ (the assign / update / convergence     *)
(*                  loop), choose_initial, choose_initial_pp,              *)
(*                  calc_centroid                                          *)
(*   src/parse.py   Parser._parse_single, Parser.docset (the normalized    *)
(*                  characteristic vectors)                                *)
(* The code is Python 2.  An uncaught exception ends the run; the model    *)
(* records it as the value of pc.                                          *)
(*                                                                         *)
(* Elements are points of the plane with integer coordinates; two elements *)
(* are equal (== and hash) when they are the same point.  Centroids are    *)
(* points with rational coordinates, kept multiplied by Scale, the least   *)
(* common multiple of the possible bin sizes, so that every mean is an     *)
(* exact integer pair.  Metric values are kept in the matching unit.       *)
(***************************************************************************)
EXTENDS Integers, Sequences, FiniteSets

\* Longest input sequence, largest number of clusters.
MaxN == 4
MaxK == 3
\* The loop of Kmeans.__init__ has no bound of its own; the model stops
\* following a run after MaxRounds rounds.
MaxRounds == 4
\* The iteration cap a caller would configure (claim C2).
MaxIterations == 3
\* 1 / 0.0005, the threshold of the convergence test.
EpsInv == 2000
\* Documents parsed and largest word count in one document (Parser).
MaxDocs == 2
MaxCount == 2

VARIABLES
    data,        \* the input sequence of elements
    k,           \* clusters
    metric,      \* the metric passed in: "sqeuclid" or "cityblock"
    avg,         \* the aggregator passed in: "mean" or "drift"
    centroids,   \* self.centroids / the initializer's list
    bins,        \* bins: one set of elements per centroid
    err,         \* err
    olderr,      \* olderr
    round,       \* rounds of the while loop begun so far
    pc,          \* position of the run, or the exception that ended it
    chooser,     \* which initializer runs (initializer runs only)
    picked,      \* the positions of data random.sample drew (initializer runs)
    docset,      \* Parser._docset: the documents, each its frequency map
    words_set,   \* Parser._words_set
    char_vector  \* each document's char_vector

vars == <<data, k, metric, avg, centroids, bins, err, olderr, round, pc,
          chooser, picked, docset, words_set, char_vector>>

engineVars == <<metric, avg, bins, err, olderr, round>>
initVars   == <<chooser, picked>>
parserVars == <<docset, words_set, char_vector>>

----------------------------------------------------------------------------
(* Arithmetic helpers *)

Abs(x) == IF x < 0 THEN -x ELSE x

RECURSIVE GCD(_, _)
GCD(a, b) == IF b = 0 THEN a ELSE GCD(b, a % b)

RECURSIVE LCMUpTo(_)
LCMUpTo(n) == IF n <= 1 THEN 1
              ELSE LET l == LCMUpTo(n - 1) IN (l * n) \div GCD(l, n)

Scale == LCMUpTo(MaxN)

\* An element as a centroid value.
Sc(p) == <<Scale * p[1], Scale * p[2]>>

RECURSIVE SumX(_)
SumX(S) == IF S = {} THEN 0
           ELSE LET p == CHOOSE q \in S : TRUE IN p[1] + SumX(S \ {p})

RECURSIVE SumY(_)
SumY(S) == IF S = {} THEN 0
           ELSE LET p == CHOOSE q \in S : TRUE IN p[2] + SumY(S \ {p})

----------------------------------------------------------------------------
(* Inputs *)

\* The points elements are drawn from, in a fixed order.
Points == << <<0, 0>>, <<0, 1>>, <<10, 10>>, <<10, 11>>, <<3, 0>> >>

\* Input sequences of up to MaxN elements, repeats allowed.  Order is
\* immaterial to the code (random.sample draws every ordered selection of
\* positions and bins are sets), so one ordering of each multiset is kept.
DataSets ==
    UNION { { [i \in 1..n |-> Points[s[i]]] :
                s \in { t \in [1..n -> 1..Len(Points)] :
                          \A i \in 1..(n - 1) : t[i] <= t[i + 1] } } :
            n \in 0..MaxN }

Metrics == {"sqeuclid", "cityblock"}
Aggregators == {"mean", "drift"}

----------------------------------------------------------------------------
(* The pluggable metric and aggregator *)

\* metric(a, b), both arguments as centroid values; the result is in units
\* of 1/Unit(m).
Metric(m, a, b) ==
    IF m = "sqeuclid"
    THEN (a[1] - b[1]) * (a[1] - b[1]) + (a[2] - b[2]) * (a[2] - b[2])
    ELSE Abs(a[1] - b[1]) + Abs(a[2] - b[2])

Unit(m) == IF m = "sqeuclid" THEN Scale * Scale ELSE Scale

\* calc_centroid without its division by len(cluster).
calc_centroid_sum(cluster) == <<Scale * SumX(cluster), Scale * SumY(cluster)>>

\* calc_centroid on a non-empty cluster: sum(cluster) / len(cluster).
calc_centroid(cluster) ==
    <<(Scale * SumX(cluster)) \div Cardinality(cluster),
      (Scale * SumY(cluster)) \div Cardinality(cluster)>>

\* avg(b) for a non-empty b.  "drift" is a stateful aggregator: the mean,
\* moved one unit further along x at every round.
Avg(a, b, r) ==
    IF a = "mean" THEN calc_centroid(b)
    ELSE <<calc_centroid(b)[1] + r * Scale, calc_centroid(b)[2]>>

----------------------------------------------------------------------------
(* random.sample(data, n): the elements at n distinct positions, in any    *)
(* order.                                                                  *)
SamplePositions(d, n) ==
    { t \in [1..n -> 1..Len(d)] : \A i, j \in 1..n : i # j => t[i] # t[j] }

Sample(d, n) == { [j \in 1..n |-> d[s[j]]] : s \in SamplePositions(d, n) }

----------------------------------------------------------------------------
(* Kmeans.__init__ *)

\* line 17: ml, as the function centroid index -> metric(c, i)
Ml(cs, i) == [ic \in 1..Len(cs) |-> Metric(metric, cs[ic], Sc(i))]

\* line 18: ml_min, the least metric value of ml
MlMin(ml) ==
    CHOOSE m \in {ml[ic] : ic \in DOMAIN ml} : \A ic \in DOMAIN ml : m <= ml[ic]

\* line 19 without its filter m == ml_min.
TiedAll(cs, i) == 1..Len(cs)

\* line 19: the list random.choice draws from
Tied(cs, i) ==
    LET ml == Ml(cs, i)
        ml_min == MlMin(ml)
    IN  {ic \in 1..Len(cs) : ml[ic] = ml_min}

\* lines 26-27: err for given bins and centroids
TotalErr(bs, cs) ==
    LET RECURSIVE BinErr(_, _)
        BinErr(b, c) ==
            IF b = {} THEN 0
            ELSE LET d == CHOOSE q \in b : TRUE
                 IN  Metric(metric, Sc(d), cs[c]) + BinErr(b \ {d}, c)
        RECURSIVE Upto(_)
        Upto(c) == IF c = 0 THEN 0 ELSE BinErr(bs[c], c) + Upto(c - 1)
    IN  Upto(Len(bs))

\* line 29: err - olderr < 0.0005
Converged(e, o) == (e - o) * EpsInv < Unit(metric)

\* line 10: self.centroids = random.sample(data, clusters)
EngineInit ==
    /\ pc = "init"
    /\ \/ /\ k > Len(data)
          /\ pc' = "ValueError"
          /\ UNCHANGED centroids
       \/ /\ k <= Len(data)
          /\ \E s \in Sample(data, k) :
                centroids' = [j \in 1..k |-> Sc(s[j])]
          /\ pc' = "assign"
    /\ UNCHANGED <<data, k, metric, avg, bins, err, olderr, round>>
    /\ UNCHANGED <<initVars, parserVars>>

\* lines 16-19 for the elements at positions 1..n: every way the n draws of
\* random.choice can fall, as sequences position -> centroid index
RECURSIVE Choices(_, _, _)
Choices(cs, d, n) ==
    IF n = 0 THEN {<<>>}
    ELSE {Append(f, c) : f \in Choices(cs, d, n - 1), c \in Tied(cs, d[n])}

\* lines 14-20: every element into the bin of one of its nearest centroids
Assign ==
    /\ pc = "assign"
    /\ \E f \in Choices(centroids, data, Len(data)) :
          bins' = [c \in 1..k |->
                     {data[i] : i \in {j \in 1..Len(data) : f[j] = c}}]
    /\ round' = round + 1
    /\ pc' = "update"
    /\ UNCHANGED <<data, k, metric, avg, centroids, err, olderr>>
    /\ UNCHANGED <<initVars, parserVars>>

\* lines 22-23: self.centroids[bi] = avg(b), bin after bin; the aggregators
\* divide by len(b), so the first empty bin raises ZeroDivisionError
Update ==
    /\ pc = "update"
    /\ LET empty == {c \in 1..k : bins[c] = {}}
           first == IF empty = {} THEN k + 1
                    ELSE CHOOSE c \in empty : \A e \in empty : c <= e
       IN  /\ centroids' = [c \in 1..k |->
                              IF c < first THEN Avg(avg, bins[c], round)
                              ELSE centroids[c]]
           /\ pc' = IF empty = {} THEN "check" ELSE "ZeroDivisionError"
    /\ UNCHANGED <<data, k, metric, avg, bins, err, olderr, round>>
    /\ UNCHANGED <<initVars, parserVars>>

\* lines 25-30: the convergence test
Check ==
    /\ pc = "check"
    /\ LET e == TotalErr(bins, centroids)
       IN  /\ olderr' = err
           /\ err' = e
           /\ \/ /\ Converged(e, err)
                 /\ pc' = "done"
              \/ /\ ~Converged(e, err)
                 /\ round < MaxRounds
                 /\ pc' = "assign"
    /\ UNCHANGED <<data, k, metric, avg, centroids, bins, round>>
    /\ UNCHANGED <<initVars, parserVars>>

Init ==
    /\ data \in DataSets
    /\ k \in 1..MaxK
    /\ metric \in Metrics
    /\ avg \in Aggregators
    /\ centroids = <<>>
    /\ bins = <<>>
    /\ err = -Unit(metric)
    /\ olderr = -Unit(metric)
    /\ round = 0
    /\ pc = "init"
    /\ chooser = "none"
    /\ picked = <<>>
    /\ docset = <<>>
    /\ words_set = {}
    /\ char_vector = <<>>

Next == EngineInit \/ Assign \/ Update \/ Check

Spec == Init /\ [][Next]_vars

----------------------------------------------------------------------------
(* Claims about Kmeans.__init__, checked under Spec                        *)

Elements == {data[i] : i \in 1..Len(data)}

\* The bins position i of data is in: bins hold elements, so position i is
\* in bin c when data[i] is a member of bins[c].
BinsOf(i) == {c \in 1..k : data[i] \in bins[c]}

\* C1: after every ASSIGN step the k bins are an exact partition of the
\* positions of data: every position is in one bin and in no second one.
C1_ExactPartition ==
    pc = "update" => \A i \in 1..Len(data) : Cardinality(BinsOf(i)) = 1

\* C2: the loop ends after at most max_iterations rounds of
\* ASSIGN / UPDATE / CHECK_CONVERGENCE, whatever the metric and aggregator.
C2_IterationCap == round <= MaxIterations

\* C5: when the loop ends by the convergence test, the result is a fixed
\* point: every element whose nearest returned centroid is unique is in that
\* centroid's bin, and the aggregate of every returned bin is the returned
\* centroid.  Stated for the mean aggregator and for data without repeated
\* elements, where neither the aggregator's state nor a shared element can
\* be the cause of a difference.
C5_FixedPoint ==
    (pc = "done" /\ avg = "mean" /\ Cardinality(Elements) = Len(data)) =>
        /\ \A e \in Elements :
              Cardinality(Tied(centroids, e)) = 1 =>
                  \A c \in Tied(centroids, e) : e \in bins[c]
        /\ \A c \in 1..k : centroids[c] = calc_centroid(bins[c])

\* The four points of scenario B, k = 2, squared Euclidean metric, mean.
ScenarioB ==
    /\ data = << <<0, 0>>, <<0, 1>>, <<10, 10>>, <<10, 11>> >>
    /\ k = 2
    /\ metric = "sqeuclid"
    /\ avg = "mean"

\* C6: on scenario B, for every choice and order of the two seeds, the run
\* raises nothing, passes the convergence test at its second round at the
\* latest, and ends with the bins {(0,0),(0,1)} and {(10,10),(10,11)}.
C6_ScenarioB ==
    ScenarioB =>
        /\ pc \notin {"ValueError", "ZeroDivisionError"}
        /\ round <= 2
        /\ (pc = "check" /\ round = 2) =>
              Converged(TotalErr(bins, centroids), err)
        /\ pc = "done" =>
              {bins[1], bins[2]} =
                  { { <<0, 0>>, <<0, 1>> }, { <<10, 10>>, <<10, 11>> } }

C6_Witness ==
    /\ ScenarioB
    /\ pc = "done"
    /\ round = 2
    /\ bins[1] = { <<10, 10>>, <<10, 11>> }

\* C8: the aggregator is never called on an empty bin, so no run ends in the
\* division by a zero length, and k centroids remain after every UPDATE.
C8_NoEmptyAggregate ==
    /\ pc # "ZeroDivisionError"
    /\ pc = "check" => (Len(centroids) = k /\ \A c \in 1..k : bins[c] # {})

\* C10: after ASSIGN every member of a bin has, to that bin's centroid, the
\* least metric value over all k centroids, and every element of data is a
\* member of some bin.
C10_NearestCentroid ==
    pc = "update" =>
        /\ \A c \in 1..k : \A e \in bins[c] : \A c2 \in 1..k :
              Metric(metric, centroids[c], Sc(e))
                  <= Metric(metric, centroids[c2], Sc(e))
        /\ \A e \in Elements : \E c \in 1..k : e \in bins[c]

\* An element with two different centroids tied for the minimum, placed in
\* the bin of the tied centroid of higher index.
C10_Witness ==
    /\ pc = "update"
    /\ \E e \in Elements : \E c1, c2 \in Tied(centroids, e) :
          /\ c1 < c2
          /\ centroids[c1] # centroids[c2]
          /\ e \in bins[c2]
          /\ e \notin bins[c1]

----------------------------------------------------------------------------
(* The initializers, run on their own: choose_initial, choose_initial_pp   *)

Choosers == {"choose_initial", "choose_initial_pp"}

\* line 44: return random.sample(data, k)
ChooseInitial ==
    /\ chooser = "choose_initial"
    /\ pc = "init"
    /\ \/ /\ k > Len(data)
          /\ pc' = "ValueError"
          /\ UNCHANGED <<centroids, picked>>
       \/ /\ k <= Len(data)
          /\ \E s \in SamplePositions(data, k) :
                /\ picked' = s
                /\ centroids' = [j \in 1..k |-> data[s[j]]]
          /\ pc' = "returned"
    /\ UNCHANGED <<data, k, chooser, engineVars, parserVars>>

\* line 62: centroids = [random.choice(data)]
PPFirst ==
    /\ chooser = "choose_initial_pp"
    /\ pc = "init"
    /\ \/ /\ Len(data) = 0
          /\ pc' = "IndexError"
          /\ UNCHANGED <<centroids, picked>>
       \/ /\ Len(data) > 0
          /\ \E i \in 1..Len(data) :
                /\ picked' = <<i>>
                /\ centroids' = <<data[i]>>
          /\ pc' = "loop"
    /\ UNCHANGED <<data, k, chooser, engineVars, parserVars>>

\* lines 66-76.  The loop test is len(centroids) < k.  The first statement
\* of the body builds mindists with the filter "if x is not c"; c is bound
\* only inside the generator expression and the lambda, so in the
\* comprehension it is a global name that the module never defines: the
\* filter raises NameError for the first x of data (data is not empty here,
\* random.choice has drawn from it).  Lines 70-74 are never reached.
PPLoop ==
    /\ chooser = "choose_initial_pp"
    /\ pc = "loop"
    /\ \/ /\ Len(centroids) < k
          /\ pc' = "NameError"
       \/ /\ Len(centroids) >= k
          /\ pc' = "returned"
    /\ UNCHANGED <<data, k, chooser, centroids, picked, engineVars, parserVars>>

InitChoosers ==
    /\ data \in DataSets
    /\ k \in 1..MaxK
    /\ chooser \in Choosers
    /\ centroids = <<>>
    /\ picked = <<>>
    /\ pc = "init"
    /\ metric = "sqeuclid"
    /\ avg = "mean"
    /\ bins = <<>>
    /\ err = -Unit(metric)
    /\ olderr = -Unit(metric)
    /\ round = 0
    /\ docset = <<>>
    /\ words_set = {}
    /\ char_vector = <<>>

NextChoosers == ChooseInitial \/ PPFirst \/ PPLoop

SpecChoosers == InitChoosers /\ [][NextChoosers]_vars

----------------------------------------------------------------------------
(* Parser: _parse_single and the docset property                           *)

Words == {"a", "b"}

\* The frequency maps Document.__init__ can build: a count of at least 1
\* for every word found in the file (lines 22-27).
FreqMaps == UNION { [ws -> 1..MaxCount] : ws \in SUBSET Words }

\* freq.get(w, 0)
Get(freq, w) == IF w \in DOMAIN freq THEN freq[w] ELSE 0

\* dot(_array, _array.conj()) of line 151, before the square root
RECURSIVE NormSq(_, _)
NormSq(freq, ws) ==
    IF ws = {} THEN 0
    ELSE LET w == CHOOSE x \in ws : TRUE
         IN  Get(freq, w) * Get(freq, w) + NormSq(freq, ws \ {w})

\* line 152: f / norm on numpy.float64 values.  Division by 0.0 does not
\* raise: it gives nan for 0.0 / 0.0 and inf otherwise.  A finite quotient
\* f / sqrt(nsq) is kept as <<"num", f, nsq>>.
Div(f, nsq) ==
    IF nsq = 0 THEN (IF f = 0 THEN <<"nan", 0, 0>> ELSE <<"inf", f, 0>>)
    ELSE <<"num", f, nsq>>

\* Document._char_vector: None (line 17) or a numpy array (lines 85-86)
None == [none |-> TRUE]
Array(v) == [none |-> FALSE, vec |-> v]

\* lines 120-124
ParseSingle ==
    /\ Len(docset) < MaxDocs
    /\ \E freq \in FreqMaps :
          /\ docset' = Append(docset, freq)
          /\ words_set' = words_set \cup DOMAIN freq
          /\ char_vector' = Append(char_vector, None)
    /\ UNCHANGED <<data, k, centroids, pc, engineVars, initVars>>

\* lines 145-154: a vector over word_list for every document of _docset;
\* the vector is kept as the function word -> component.
Docset ==
    /\ char_vector' =
          [d \in 1..Len(docset) |->
              Array([w \in words_set |->
                  Div(Get(docset[d], w), NormSq(docset[d], words_set))])]
    /\ UNCHANGED <<docset, words_set>>
    /\ UNCHANGED <<data, k, centroids, pc, engineVars, initVars>>

InitParser ==
    /\ docset = <<>>
    /\ words_set = {}
    /\ char_vector = <<>>
    /\ data = <<>>
    /\ k = 1
    /\ centroids = <<>>
    /\ pc = "init"
    /\ metric = "sqeuclid"
    /\ avg = "mean"
    /\ bins = <<>>
    /\ err = -Unit(metric)
    /\ olderr = -Unit(metric)
    /\ round = 0
    /\ chooser = "none"
    /\ picked = <<>>

NextParser == ParseSingle \/ Docset

SpecParser == InitParser /\ [][NextParser]_vars

----------------------------------------------------------------------------
(* Claims about the initializers, checked under SpecChoosers               *)

Finished == pc \notin {"init", "loop"}

\* C3: on data of size n >= k both initializers return exactly k centroids
\* drawn at k pairwise different positions, and the list of drawn positions
\* never holds a position twice.
C3_KDistinct ==
    /\ \A i, j \in 1..Len(picked) : i # j => picked[i] # picked[j]
    /\ (k <= Len(data) /\ Finished) =>
          /\ pc = "returned"
          /\ Len(centroids) = k
          /\ Len(picked) = k

\* C4: when k exceeds the number of distinct elements of data, the
\* initializer fails for want of data (random.sample's ValueError, or
\* random.choice's IndexError on empty data) and returns nothing.
C4_InsufficientData ==
    (k > Cardinality(Elements) /\ Finished) =>
        pc \in {"ValueError", "IndexError"}

\* C9: in choose_initial_pp, when every candidate is at distance 0 from the
\* first centroid (all weights and their total are 0), the initializer still
\* returns k centroids.
C9_ZeroWeightFallback ==
    ( /\ chooser = "choose_initial_pp"
      /\ 2 <= k
      /\ k <= Len(data)
      /\ Finished
      /\ \A e \in Elements :
            Metric("sqeuclid", Sc(e), Sc(centroids[1])) = 0 ) =>
        /\ pc = "returned"
        /\ Len(centroids) = k

----------------------------------------------------------------------------
(* Claim about Parser.docset, checked under SpecParser                     *)

\* C7: no vector with an undefined (nan) component is ever stored as a
\* document's char_vector: a raw vector of norm 0 is rejected before the
\* division.
C7_NoNaNStored ==
    \A d \in 1..Len(docset) :
        ~char_vector[d].none =>
            \A w \in DOMAIN char_vector[d].vec :
                char_vector[d].vec[w][1] # "nan"

====
